---- MODULE Spec2Model ----
(***************************************************************************)
(* Model of the two Pure Storage FlashArray monitoring plugins             *)
(*   check_purefa_alert.py  (class PureFAalert, main)                      *)
(*   check_purefa_occpy.py  (class PureFAoccpy, main)                      *)
(* One invocation of a plugin is a run of Spec: the command line is parsed,*)
(* the check and its contexts are built (range expressions are parsed by   *)
(* the ScalarContext constructors), the resource is probed (REST session   *)
(* opened, queried, invalidated), the metrics are evaluated and the        *)
(* overall state is reported.  SpecProbe is the PureFAalert object on its  *)
(* own, probed any number of times.                                        *)
(*                                                                         *)
(* The nagiosplugin framework (Range, ScalarContext, Check, guarded) is    *)
(* not part of the repository; it is modelled after sections 4.1, 4.4, 4.5 *)
(* and 7 of the specification.                                             *)
(***************************************************************************)
EXTENDS Integers, Sequences, FiniteSets, TLC

\* --------------------------------------------------------------- bounds
\* Longest list of open alert records the array returns.
MaxAlerts == 3
\* Most range options given on one alert command line.
MaxRangeArgs == 2
\* Largest 'total' / 'volumes' counter of a space record.
MaxBytes == 3
\* Largest 'capacity' / 'size' of a space record (at least 1).
MaxSize == 4
\* Most probe calls on one PureFAalert object (SpecProbe).
MaxProbes == 3

\* ------------------------------------------------------------- plain data
None == "None"
Ok == "OK"
Warn == "WARNING"
Critical == "CRITICAL"
Unknown == "UNKNOWN"

\* ServiceState codes: the order most_significant_state maximises over.
StateCode(s) ==
    CASE s = Ok -> 0
      [] s = Warn -> 1
      [] s = Critical -> 2
      [] s = Unknown -> 3

Digits == {"0", "1", "2", "3", "4", "5", "6", "7", "8", "9"}

DigitVal(c) ==
    CASE c = "0" -> 0 [] c = "1" -> 1 [] c = "2" -> 2 [] c = "3" -> 3
      [] c = "4" -> 4 [] c = "5" -> 5 [] c = "6" -> 6 [] c = "7" -> 7
      [] c = "8" -> 8 [] c = "9" -> 9

\* A range expression is a string, modelled as its sequence of characters.
\* The empty string stands for both an option left out (argparse's None
\* for the alert check, '' for the occupancy check): Range treats them alike.
NoRange == << >>

\* No error text.
NoMessage == << >>

\* ------------------------------------------------------ Range (framework)
RECURSIVE ParseInt(_)
\* int(atom) for a string of digits.
ParseInt(atom) ==
    IF atom = << >> THEN 0
    ELSE 10 * ParseInt(SubSeq(atom, 1, Len(atom) - 1)) + DigitVal(atom[Len(atom)])

IsNumber(atom) == atom # << >> /\ \A i \in 1..Len(atom) : atom[i] \in Digits

Colons(spec) == {i \in 1..Len(spec) : spec[i] = ":"}

\* The parsed range: ok = FALSE is the ParseError.  startInf / endInf mark
\* the infinite ends.
BadRange == [ok |-> FALSE, invert |-> FALSE, startInf |-> TRUE, start |-> 0,
             endInf |-> TRUE, end |-> 0]

RangeParse(spec) ==
    IF spec = << >>
    THEN [ok |-> TRUE, invert |-> FALSE, startInf |-> TRUE, start |-> 0,
          endInf |-> TRUE, end |-> 0]
    ELSE
    LET invert == spec[1] = "@"
        body == IF invert THEN Tail(spec) ELSE spec
        cs == Colons(body)
        c == IF cs = {} THEN 0 ELSE CHOOSE i \in cs : TRUE
        startTxt == IF cs = {} THEN << >> ELSE SubSeq(body, 1, c - 1)
        endTxt == IF cs = {} THEN body ELSE SubSeq(body, c + 1, Len(body))
        startInf == startTxt = <<"~">>
        startOk == startInf \/ startTxt = << >> \/ IsNumber(startTxt)
        endInf == endTxt = << >>
        endOk == endInf \/ IsNumber(endTxt)
        start == IF startOk /\ ~startInf THEN ParseInt(startTxt) ELSE 0
        end == IF endOk /\ ~endInf THEN ParseInt(endTxt) ELSE 0
    IN  IF Cardinality(cs) > 1 \/ ~startOk \/ ~endOk THEN BadRange
        ELSE IF ~startInf /\ ~endInf /\ start > end THEN BadRange
        ELSE [ok |-> TRUE, invert |-> invert, startInf |-> startInf,
              start |-> start, endInf |-> endInf, end |-> end]

\* Range.match: the value lies in [start, end], the other way round for '@'.
Match(r, value) ==
    LET inside == (r.startInf \/ r.start <= value) /\ (r.endInf \/ value <= r.end)
    IN  IF r.invert THEN ~inside ELSE inside

\* ScalarContext.evaluate: the critical range is tested first.
ScalarContextEvaluate(ctx, value) ==
    IF ~Match(ctx.critical, value) THEN Critical
    ELSE IF ~Match(ctx.warning, value) THEN Warn
    ELSE Ok

RECURSIVE MostSignificant(_)
\* Results.most_significant_state over a non-empty list of results.
MostSignificant(rs) ==
    IF Len(rs) = 1 THEN rs[1].state
    ELSE LET rest == MostSignificant(Tail(rs))
         IN  IF StateCode(rs[1].state) >= StateCode(rest) THEN rs[1].state ELSE rest

\* Check.state: no result at all is Unknown.
CheckState(rs) == IF rs = << >> THEN Unknown ELSE MostSignificant(rs)

\* ------------------------------------------------ command lines (parse_args)
AlertOptions == {"warning_crit", "critical_crit", "warning_warn",
                 "critical_warn", "warning_info", "critical_info"}

\* Range expressions tried on the alert command line: 0:1, @0 (anything
\* but 0) and the malformed 2:1.
AlertRangeExprs == {NoRange, <<"0", ":", "1">>, <<"@", "0">>, <<"2", ":", "1">>}

AlertArgs ==
    {a \in [AlertOptions -> AlertRangeExprs] :
        Cardinality({o \in AlertOptions : a[o] # NoRange}) <= MaxRangeArgs}

\* Range expressions tried on the occupancy command line: 0:80, 0:95, ~:1,
\* @25:50 and the malformed 9x and 1:2:3.
OccpyRangeExprs == {NoRange, <<"0", ":", "8", "0">>, <<"0", ":", "9", "5">>,
                    <<"~", ":", "1">>, <<"@", "2", "5", ":", "5", "0">>,
                    <<"9", "x">>, <<"1", ":", "2", ":", "3">>}

Volumes == {"vol1"}

OccpyArgs ==
    [vol : {None} \cup Volumes, warning : OccpyRangeExprs,
     critical : OccpyRangeExprs, percentage : BOOLEAN]

ArgsOf(v) == IF v = "alert" THEN AlertArgs ELSE OccpyArgs

\* ------------------------------------------------------- the data source
\* Texts of the errors the REST client raises.
Errors == {"connection refused", "invalid api token"}

Severities == {"critical", "warning", "info", "hidden"}

RECURSIVE SeqsUpTo(_, _)
SeqsUpTo(S, n) ==
    IF n = 0 THEN {<< >>}
    ELSE LET shorter == SeqsUpTo(S, n - 1)
         IN  shorter \cup {Append(q, x) : q \in {r \in shorter : Len(r) = n - 1}, x \in S}

\* What list_messages(open = True) returns: a list of alert records.
AlertLists == SeqsUpTo([current_severity : Severities], MaxAlerts)

\* The empty record, and the space records of the array and of a volume.
EmptyRecord == << >>

ArraySpace == [total : 0..MaxBytes, capacity : 1..MaxSize]

VolumeSpace == [total : 0..MaxBytes, size : 1..MaxSize, volumes : 0..MaxBytes]

\* 'not fainfo': an empty list, an empty record (or None).
Falsy(x) == DOMAIN x = {}

\* ------------------------------------------------------------- the state
VARIABLES
    variant,    \* which plugin runs: "alert" or "occpy"
    args,       \* the parsed command line
    pc,         \* where the invocation stands
    self,       \* the resource object's fields
    contexts,   \* the contexts handed to Check, by name
    fa,         \* the REST session: "none", "open" or "invalidated"
    fetches,    \* sessions the invocation tried to open
    queries,    \* queries the invocation issued
    fainfo,     \* what the query returned
    probes,     \* probe calls made on the resource
    metrics,    \* what probe returned
    results,    \* the results the check collected
    overall,    \* the state the invocation ends with (None before)
    message,    \* the text reported with a fatal error (NoMessage without)
    raised,     \* the error the REST client raised (None without)
    invalidations   \* calls of invalidate_cookie

vars == <<variant, args, pc, self, contexts, fa, fetches, queries, fainfo,
          probes, metrics, results, overall, message, raised, invalidations>>

\* ------------------------------------------------- check_purefa_alert.py
\* PureFAalert.__init__: the three counters start at 0.
NewPureFAalert == [info |-> 0, warn |-> 0, crit |-> 0]

\* CountAlert with a warning counted as a critical alert.
CountAlertSwapped(obj, alert) ==
    IF alert.current_severity = "critical" THEN [obj EXCEPT !.crit = @ + 1]
    ELSE IF alert.current_severity = "warning" THEN [obj EXCEPT !.crit = @ + 1]
    ELSE IF alert.current_severity = "info" THEN [obj EXCEPT !.info = @ + 1]
    ELSE obj

\* One pass of the loop body of probe.
CountAlert(obj, alert) ==
    IF alert.current_severity = "critical" THEN [obj EXCEPT !.crit = @ + 1]
    ELSE IF alert.current_severity = "warning" THEN [obj EXCEPT !.warn = @ + 1]
    ELSE IF alert.current_severity = "info" THEN [obj EXCEPT !.info = @ + 1]
    ELSE obj

RECURSIVE CountAlerts(_, _)
\* for alert in fainfo: ...
CountAlerts(obj, alerts) ==
    IF alerts = << >> THEN obj
    ELSE CountAlerts(CountAlert(obj, Head(alerts)), Tail(alerts))

\* nagiosplugin.Metric(name, value, min=0): the context is the name.
CountMetric(name, value) ==
    [name |-> name, value |-> value, uom |-> None, min |-> 0, context |-> name]

\* ProbeAlert whose early return leaves out the info metric.
ProbeAlertShort(obj, info) ==
    IF Falsy(info)
    THEN [self |-> obj,
          metrics |-> <<CountMetric("critical", 0), CountMetric("warning", 0)>>]
    ELSE LET after == CountAlerts(obj, info)
         IN  [self |-> after,
              metrics |-> <<CountMetric("critical", after.crit),
                            CountMetric("warning", after.warn),
                            CountMetric("info", after.info)>>]

\* PureFAalert.probe after get_alerts returned fainfo: the object after the
\* call and the metrics returned.
ProbeAlert(obj, info) ==
    IF Falsy(info)
    THEN [self |-> obj,
          metrics |-> <<CountMetric("critical", 0), CountMetric("warning", 0),
                        CountMetric("info", 0)>>]
    ELSE LET after == CountAlerts(obj, info)
         IN  [self |-> after,
              metrics |-> <<CountMetric("critical", after.crit),
                            CountMetric("warning", after.warn),
                            CountMetric("info", after.info)>>]

\* AlertContexts with the warning and critical options of each context
\* handed over in the wrong order.
AlertContextsSwapped(a) ==
    [n \in {"critical", "warning", "info"} |->
        CASE n = "critical" -> [warning |-> RangeParse(a.critical_crit),
                                critical |-> RangeParse(a.warning_crit)]
          [] n = "warning" -> [warning |-> RangeParse(a.critical_warn),
                               critical |-> RangeParse(a.warning_warn)]
          [] n = "info" -> [warning |-> RangeParse(a.critical_info),
                            critical |-> RangeParse(a.warning_info)]]

\* AlertContexts without the 'info' context.
AlertContextsNoInfo(a) ==
    [n \in {"critical", "warning"} |->
        CASE n = "critical" -> [warning |-> RangeParse(a.warning_crit),
                                critical |-> RangeParse(a.critical_crit)]
          [] n = "warning" -> [warning |-> RangeParse(a.warning_warn),
                               critical |-> RangeParse(a.critical_warn)]]

\* main: the three ScalarContexts, each built from its two range options.
AlertContexts(a) ==
    [n \in {"critical", "warning", "info"} |->
        CASE n = "critical" -> [warning |-> RangeParse(a.warning_crit),
                                critical |-> RangeParse(a.critical_crit)]
          [] n = "warning" -> [warning |-> RangeParse(a.warning_warn),
                               critical |-> RangeParse(a.critical_warn)]
          [] n = "info" -> [warning |-> RangeParse(a.warning_info),
                            critical |-> RangeParse(a.critical_info)]]

\* ------------------------------------------------- check_purefa_occpy.py
\* PureFAoccpy.__init__.
NewPureFAoccpy(a) == [volname |-> a.vol, percentage |-> a.percentage]

\* round(float(n) / float(d), 2) * 100 as a whole number of percent: the
\* ratio rounded to hundredths, ties to even as Python's round does.
RoundedPercent(n, d) ==
    LET q == (100 * n) \div d
        r == 2 * ((100 * n) % d)
    IN  IF r > d \/ (r = d /\ q % 2 = 1) THEN q + 1 ELSE q

\* ProbeOccpy reporting 0 % for a falsy record instead of nothing.
ProbeOccpyZero(obj, info) ==
    IF Falsy(info)
    THEN <<[name |-> <<"FA occupancy">>, value |-> 0,
            uom |-> "%", min |-> 0, max |-> 100, context |-> "occupancy"]>>
    ELSE IF obj.volname = None
    THEN <<[name |-> <<"FA occupancy">>,
            value |-> RoundedPercent(info.total, info.capacity),
            uom |-> "%", min |-> 0, max |-> 100, context |-> "occupancy"]>>
    ELSE IF obj.percentage
    THEN <<[name |-> <<obj.volname, " occupancy">>,
            value |-> RoundedPercent(info.total, info.size),
            uom |-> "%", min |-> 0, max |-> 100, context |-> "occupancy"]>>
    ELSE <<[name |-> <<obj.volname, " occupancy">>, value |-> info.volumes,
            uom |-> "B", min |-> 0, context |-> "occupancy"]>>

\* ProbeOccpy reporting a volume in percent whatever the percentage flag.
ProbeOccpyPercent(obj, info) ==
    IF Falsy(info) THEN << >>
    ELSE IF obj.volname = None
    THEN <<[name |-> <<"FA occupancy">>,
            value |-> RoundedPercent(info.total, info.capacity),
            uom |-> "%", min |-> 0, max |-> 100, context |-> "occupancy"]>>
    ELSE <<[name |-> <<obj.volname, " occupancy">>,
            value |-> RoundedPercent(info.total, info.size),
            uom |-> "%", min |-> 0, max |-> 100, context |-> "occupancy"]>>

\* PureFAoccpy.probe after get_space returned fainfo: '' (no metric) for a
\* falsy record, one metric otherwise.
ProbeOccpy(obj, info) ==
    IF Falsy(info) THEN << >>
    ELSE IF obj.volname = None
    THEN <<[name |-> <<"FA occupancy">>,
            value |-> RoundedPercent(info.total, info.capacity),
            uom |-> "%", min |-> 0, max |-> 100, context |-> "occupancy"]>>
    ELSE IF obj.percentage
    THEN <<[name |-> <<obj.volname, " occupancy">>,
            value |-> RoundedPercent(info.total, info.size),
            uom |-> "%", min |-> 0, max |-> 100, context |-> "occupancy"]>>
    ELSE <<[name |-> <<obj.volname, " occupancy">>, value |-> info.volumes,
            uom |-> "B", min |-> 0, context |-> "occupancy"]>>

\* main: the one ScalarContext 'occupancy'.
OccpyContexts(a) ==
    [n \in {"occupancy"} |->
        [warning |-> RangeParse(a.warning), critical |-> RangeParse(a.critical)]]

\* ------------------------------------------------------ one invocation
\* main: the resource object handed to Check.
NewResource(v, a) == IF v = "alert" THEN NewPureFAalert ELSE NewPureFAoccpy(a)

\* main: the contexts handed to Check.
MainContexts(v, a) == IF v = "alert" THEN AlertContexts(a) ELSE OccpyContexts(a)

\* MainParses with the range expressions left unchecked until they are used.
MainParsesLate(v, a) == TRUE

\* main: the ScalarContext constructors parse their range expressions and
\* raise on a malformed one, before check.main runs.
MainParses(v, a) ==
    LET ctxs == MainContexts(v, a)
    IN  \A n \in DOMAIN ctxs : ctxs[n].warning.ok /\ ctxs[n].critical.ok

\* The text of the CheckError get_alerts and get_space raise for error e.
CheckErrorText(e) == <<"FA REST call returned \"", e, "\"">>

\* What the query can return.  The array query takes element [0] of the
\* answer, the volume query the answer itself.
QueryResults(v, obj) ==
    IF v = "alert" THEN AlertLists
    ELSE IF obj.volname = None THEN {EmptyRecord} \cup ArraySpace
    ELSE {EmptyRecord} \cup VolumeSpace

\* The errors the query can raise: those of the REST client, and for the
\* array query the IndexError of [0] on an empty answer.
QueryErrors(v, obj) ==
    IF v = "occpy" /\ obj.volname = None
    THEN Errors \cup {"list index out of range"}
    ELSE Errors

Init ==
    /\ variant \in {"alert", "occpy"}
    /\ args \in ArgsOf(variant)
    /\ pc = "start"
    /\ self = << >>
    /\ contexts = << >>
    /\ fa = "none"
    /\ fetches = 0
    /\ queries = 0
    /\ fainfo = << >>
    /\ probes = 0
    /\ metrics = << >>
    /\ results = << >>
    /\ overall = None
    /\ message = NoMessage
    /\ raised = None
    /\ invalidations = 0

\* Raise with the exception swallowed: the probe goes on with the initial
\* fainfo = {}.
RaiseSwallowed(e) ==
    /\ raised' = e
    /\ pc' = "probe"
    /\ UNCHANGED <<results, overall, message>>

\* The except clause of get_alerts / get_space raises CheckError; the check
\* records it as an Unknown result and evaluates nothing further.
Raise(e) ==
    /\ raised' = e
    /\ results' = Append(results, [state |-> Unknown])
    /\ overall' = CheckState(results')
    /\ message' = CheckErrorText(e)
    /\ pc' = "done"

\* main up to check.main: the resource and the contexts are constructed.
BuildCheck ==
    /\ pc = "start"
    /\ self' = NewResource(variant, args)
    /\ contexts' = MainContexts(variant, args)
    /\ IF MainParses(variant, args)
       THEN pc' = "open" /\ UNCHANGED <<overall, message>>
       ELSE pc' = "done" /\ overall' = Unknown /\ message' = <<"ValueError">>
    /\ UNCHANGED <<variant, args, fa, fetches, queries, fainfo, probes,
                   metrics, results, raised, invalidations>>

\* purestorage.FlashArray(endpoint, api_token=apitoken)
OpenSession ==
    /\ pc = "open"
    /\ fetches' = fetches + 1
    /\ \/ /\ fa' = "open"
          /\ pc' = "query"
          /\ UNCHANGED <<results, overall, message, raised>>
       \/ /\ \E e \in Errors : Raise(e)
          /\ UNCHANGED fa
    /\ UNCHANGED <<variant, args, self, contexts, queries, fainfo, probes,
                   metrics, invalidations>>

\* fa.list_messages(open = True), fa.get(space=True)[0], fa.get_volume(...)
Query ==
    /\ pc = "query"
    /\ queries' = queries + 1
    /\ \/ /\ \E data \in QueryResults(variant, self) : fainfo' = data
          /\ pc' = "invalidate"
          /\ UNCHANGED <<results, overall, message, raised>>
       \/ /\ \E e \in QueryErrors(variant, self) : Raise(e)
          /\ UNCHANGED fainfo
    /\ UNCHANGED <<variant, args, self, contexts, fa, fetches, probes,
                   metrics, invalidations>>

\* fa.invalidate_cookie()
InvalidateCookie ==
    /\ pc = "invalidate"
    /\ invalidations' = invalidations + 1
    /\ \/ /\ fa' = "invalidated"
          /\ pc' = "probe"
          /\ UNCHANGED <<results, overall, message, raised>>
       \/ /\ \E e \in Errors : Raise(e)
          /\ UNCHANGED fa
    /\ UNCHANGED <<variant, args, self, contexts, fetches, queries, fainfo,
                   probes, metrics>>

\* The rest of probe, once get_alerts / get_space has returned.
Probe ==
    /\ pc = "probe"
    /\ probes' = probes + 1
    /\ IF variant = "alert"
       THEN /\ self' = ProbeAlert(self, fainfo).self
            /\ metrics' = ProbeAlert(self, fainfo).metrics
       ELSE /\ metrics' = ProbeOccpy(self, fainfo)
            /\ UNCHANGED self
    /\ pc' = "evaluate"
    /\ UNCHANGED <<variant, args, contexts, fa, fetches, queries, fainfo,
                   results, overall, message, raised, invalidations>>

\* The metrics in front of the first one whose context the check lacks.
Evaluable(ms, ctxs) ==
    LET missing == {i \in 1..Len(ms) : ms[i].context \notin DOMAIN ctxs}
    IN  IF missing = {} THEN ms
        ELSE SubSeq(ms, 1, (CHOOSE i \in missing : \A j \in missing : i <= j) - 1)

\* Check.__call__ and Check.state: every metric is evaluated by its context;
\* a metric without a context is a KeyError, fatal for the invocation.
Evaluate ==
    /\ pc = "evaluate"
    /\ LET ms == Evaluable(metrics, contexts)
       IN  /\ results' = [i \in 1..Len(ms) |->
                            [state |-> ScalarContextEvaluate(contexts[ms[i].context],
                                                             ms[i].value),
                             metric |-> ms[i].name]]
           /\ IF Len(ms) = Len(metrics)
              THEN overall' = CheckState(results') /\ UNCHANGED message
              ELSE overall' = Unknown /\ message' = <<"KeyError">>
    /\ pc' = "done"
    /\ UNCHANGED <<variant, args, self, contexts, fa, fetches, queries, fainfo,
                   probes, metrics, raised, invalidations>>

Next == BuildCheck \/ OpenSession \/ Query \/ InvalidateCookie \/ Probe \/ Evaluate

Spec == Init /\ [][Next]_vars

\* ----------------------------------------- the PureFAalert object alone
\* A PureFAalert object just constructed; nothing else of an invocation
\* takes part.
InitProbe ==
    /\ variant = "alert"
    /\ args = [o \in AlertOptions |-> NoRange]
    /\ pc = "object"
    /\ self = NewPureFAalert
    /\ contexts = << >>
    /\ fa = "none"
    /\ fetches = 0
    /\ queries = 0
    /\ fainfo = << >>
    /\ probes = 0
    /\ metrics = << >>
    /\ results = << >>
    /\ overall = None
    /\ message = NoMessage
    /\ raised = None
    /\ invalidations = 0

\* One call of PureFAalert.probe, get_alerts included: it returns the
\* metrics, or raises CheckError when a step of get_alerts fails.
ProbeCall ==
    /\ pc = "object"
    /\ probes < MaxProbes
    /\ probes' = probes + 1
    /\ fetches' = fetches + 1
    /\ \/ \E data \in AlertLists :
             /\ fainfo' = data
             /\ queries' = queries + 1
             /\ fa' = "invalidated"
             /\ invalidations' = invalidations + 1
             /\ self' = ProbeAlert(self, data).self
             /\ metrics' = ProbeAlert(self, data).metrics
             /\ message' = NoMessage
             /\ raised' = None
       \/ \E e \in Errors, step \in {"open", "query", "invalidate"} :
             /\ fa' = IF step = "open" THEN "none" ELSE "open"
             /\ queries' = IF step = "open" THEN queries ELSE queries + 1
             /\ invalidations' = IF step = "invalidate" THEN invalidations + 1
                                  ELSE invalidations
             /\ fainfo' = << >>
             /\ metrics' = << >>
             /\ message' = CheckErrorText(e)
             /\ raised' = e
             /\ UNCHANGED self
    /\ UNCHANGED <<variant, args, pc, contexts, results, overall>>

NextProbe == ProbeCall

SpecProbe == InitProbe /\ [][NextProbe]_vars

\* ----------------------------------------------------------- the claims
\* The number of records of an alert list with the given severity.
Count(alerts, sev) ==
    Cardinality({i \in 1..Len(alerts) : alerts[i].current_severity = sev})

Alert(sev) == [current_severity |-> sev]

\* probe has returned its metrics in this invocation.
Probed == probes = 1 /\ pc \in {"evaluate", "done"}

\* The metrics have been evaluated.
Evaluated == probes = 1 /\ pc = "done"

\* C1: the alert probe returns exactly three metrics, critical, warning and
\* info in this order, each with min 0 and no max, whose values are the
\* numbers of fetched records of that severity.
C1_AlertCounts ==
    (variant = "alert" /\ Probed) =>
        /\ Len(metrics) = 3
        /\ <<metrics[1].name, metrics[2].name, metrics[3].name>>
             = <<"critical", "warning", "info">>
        /\ \A i \in 1..3 :
              /\ metrics[i].min = 0
              /\ "max" \notin DOMAIN metrics[i]
              /\ metrics[i].value = Count(fainfo, metrics[i].name)

\* The records [critical, critical, warning] were counted as 2, 1, 0.
C1_Witness ==
    /\ variant = "alert"
    /\ Probed
    /\ fainfo = <<Alert("critical"), Alert("critical"), Alert("warning")>>
    /\ <<metrics[1].value, metrics[2].value, metrics[3].value>> = <<2, 1, 0>>

\* The range expression the command line gives as the warning (critical)
\* range of metric m.
WarningOption(m) ==
    IF variant = "occpy" THEN args.warning
    ELSE CASE m.name = "critical" -> args.warning_crit
           [] m.name = "warning" -> args.warning_warn
           [] m.name = "info" -> args.warning_info

CriticalOption(m) ==
    IF variant = "occpy" THEN args.critical
    ELSE CASE m.name = "critical" -> args.critical_crit
           [] m.name = "warning" -> args.critical_warn
           [] m.name = "info" -> args.critical_info

Accepts(expr, value) == Match(RangeParse(expr), value)

\* C2: a metric is CRITICAL whenever its critical range does not accept
\* its value, whatever the warning range; otherwise WARNING when the warning
\* range does not accept it; otherwise OK; a range left out accepts the value.
C2_ThresholdVerdict ==
    Evaluated =>
        /\ Len(results) = Len(metrics)
        /\ \A i \in 1..Len(metrics) :
              LET m == metrics[i]
                  w == Accepts(WarningOption(m), m.value)
                  c == Accepts(CriticalOption(m), m.value)
              IN  /\ ~c => results[i].state = Critical
                  /\ (c /\ ~w) => results[i].state = Warn
                  /\ (c /\ w) => results[i].state = Ok
                  /\ WarningOption(m) = NoRange => w
                  /\ CriticalOption(m) = NoRange => c

\* A metric with both ranges given, refused by the warning range and
\* accepted by the critical one, is WARNING.
C2_Witness ==
    /\ Evaluated
    /\ \E i \in 1..Len(metrics) :
          /\ WarningOption(metrics[i]) # NoRange
          /\ CriticalOption(metrics[i]) # NoRange
          /\ ~Accepts(WarningOption(metrics[i]), metrics[i].value)
          /\ Accepts(CriticalOption(metrics[i]), metrics[i].value)
          /\ results[i].state = Warn

\* The worst of a non-empty set of states under OK < WARNING < CRITICAL,
\* UNKNOWN above them all.
Worst(S) ==
    IF Unknown \in S THEN Unknown
    ELSE IF Critical \in S THEN Critical
    ELSE IF Warn \in S THEN Warn
    ELSE Ok

Permuted(rs, p) == [i \in 1..Len(rs) |-> rs[p[i]]]

\* C3: the overall state is the worst of the per-metric states, UNKNOWN when
\* a component signalled UNKNOWN or nothing was produced, the same for every
\* order of the results; and every metric probe returned has its result.
C3_Aggregation ==
    pc = "done" =>
        /\ overall = IF results = << >> THEN Unknown
                     ELSE Worst({results[i].state : i \in 1..Len(results)})
        /\ \A p \in Permutations(1..Len(results)) :
              CheckState(Permuted(results, p)) = overall
        /\ Evaluated =>
              /\ Len(results) = Len(metrics)
              /\ \A i \in 1..Len(metrics) : results[i].metric = metrics[i].name

\* The first metric is CRITICAL and the two after it were still evaluated,
\* to WARNING and OK.
C3_Witness ==
    /\ Evaluated
    /\ variant = "alert"
    /\ Len(results) = 3
    /\ <<results[1].state, results[2].state, results[3].state>> = <<Critical, Warn, Ok>>
    /\ overall = Critical

\* C4: once a step of the fetch has raised, the invocation is over after
\* its single fetch attempt, no metric was produced or evaluated, and the
\* overall state is UNKNOWN with a message that carries the error's text.
C4_FetchFailure ==
    /\ fetches <= 1
    /\ queries <= 1
    /\ raised # None =>
          /\ pc = "done"
          /\ fetches = 1
          /\ probes = 0
          /\ metrics = << >>
          /\ \A i \in 1..Len(results) : results[i].state = Unknown
          /\ overall = Unknown
          /\ \E i \in 1..Len(message) : message[i] = raised

\* The query of the occupancy check failed on an open session.
C4_Witness ==
    /\ variant = "occpy"
    /\ raised = "invalid api token"
    /\ fa = "open"
    /\ queries = 1
    /\ invalidations = 0
    /\ overall = Unknown

\* C5: the occupancy probe turns an empty space record into no metric at
\* all, without an error, and the invocation then ends UNKNOWN whatever the
\* ranges are.
C5_EmptyRecord ==
    (variant = "occpy" /\ Probed /\ Falsy(fainfo)) =>
        /\ metrics = << >>
        /\ raised = None
        /\ message = NoMessage
        /\ pc = "done" => (results = << >> /\ overall = Unknown)

\* A volume check with both ranges given ended on an empty record.
C5_Witness ==
    /\ variant = "occpy"
    /\ Evaluated
    /\ Falsy(fainfo)
    /\ args.vol # None
    /\ args.warning # NoRange
    /\ args.critical # NoRange
    /\ overall = Unknown

\* Every range given on the alert command line accepts 0.
RangesAcceptZero == \A o \in AlertOptions : Accepts(args[o], 0)

\* C6 as stated: with no open alert the three metrics are 0 and the overall
\* state is OK.
C6_NoAlertsOk ==
    (variant = "alert" /\ Evaluated /\ fainfo = << >>) =>
        /\ Len(metrics) = 3
        /\ \A i \in 1..3 : metrics[i].value = 0
        /\ overall = Ok

\* C6 amended: with no open alert the three metrics are 0, and the overall
\* state is OK exactly when every range given accepts 0.
C6_NoAlertsOkIfZeroAccepted ==
    (variant = "alert" /\ Evaluated /\ fainfo = << >>) =>
        /\ Len(metrics) = 3
        /\ \A i \in 1..3 : metrics[i].value = 0
        /\ overall = Ok <=> RangesAcceptZero

\* No open alert, ranges given that accept 0: the invocation ended OK.
C6_Witness ==
    /\ variant = "alert"
    /\ Evaluated
    /\ fainfo = << >>
    /\ args.critical_crit = <<"0", ":", "1">>
    /\ args.warning_warn = <<"0", ":", "1">>
    /\ <<metrics[1].value, metrics[2].value, metrics[3].value>> = <<0, 0, 0>>
    /\ overall = Ok

\* v is n / d rounded to hundredths, times 100.
IsRoundedPercent(v, n, d) ==
    /\ 2 * (100 * n - v * d) <= d
    /\ 2 * (v * d - 100 * n) <= d

\* C7: for a non-empty space record the occupancy probe returns one metric:
\* without a volume 'FA occupancy' in % of total / capacity, bounded by 0
\* and 100, whatever the percentage flag; with a volume and the flag
\* '<volume> occupancy' in % of total / size, bounded by 0 and 100; with a
\* volume and no flag '<volume> occupancy' in bytes, the record's 'volumes',
\* with min 0 and no max.
C7_OccupancyModes ==
    (variant = "occpy" /\ Probed /\ ~Falsy(fainfo)) =>
        /\ Len(metrics) = 1
        /\ metrics[1].min = 0
        /\ IF args.vol = None
           THEN /\ metrics[1].name = <<"FA occupancy">>
                /\ metrics[1].uom = "%"
                /\ "max" \in DOMAIN metrics[1] /\ metrics[1].max = 100
                /\ IsRoundedPercent(metrics[1].value, fainfo.total, fainfo.capacity)
           ELSE IF args.percentage
           THEN /\ metrics[1].name = <<args.vol, " occupancy">>
                /\ metrics[1].uom = "%"
                /\ "max" \in DOMAIN metrics[1] /\ metrics[1].max = 100
                /\ IsRoundedPercent(metrics[1].value, fainfo.total, fainfo.size)
           ELSE /\ metrics[1].name = <<args.vol, " occupancy">>
                /\ metrics[1].uom = "B"
                /\ "max" \notin DOMAIN metrics[1]
                /\ metrics[1].value = fainfo.volumes

\* An array filled to a quarter is reported as 25 % and is OK under
\* -w 0:80 -c 0:95, with the percentage flag set.
C7_Witness ==
    /\ variant = "occpy"
    /\ Evaluated
    /\ args.vol = None
    /\ args.percentage
    /\ args.warning = <<"0", ":", "8", "0">>
    /\ args.critical = <<"0", ":", "9", "5">>
    /\ ~Falsy(fainfo)
    /\ fainfo.total = 1 /\ fainfo.capacity = 4
    /\ metrics[1].value = 25
    /\ overall = Ok

\* A range expression of the command line is malformed.
Malformed ==
    IF variant = "alert" THEN \E o \in AlertOptions : ~RangeParse(args[o]).ok
    ELSE ~RangeParse(args.warning).ok \/ ~RangeParse(args.critical).ok

\* C8: with a malformed range expression the invocation ends with a fatal
\* error and no session was opened and no query issued.
C8_ParseBeforeFetch ==
    Malformed =>
        /\ pc \in {"start", "done"}
        /\ fetches = 0 /\ queries = 0 /\ fa = "none"
        /\ pc = "done" => (overall = Unknown /\ message # NoMessage /\ results = << >>)

\* An occupancy check given a malformed critical range has ended.
C8_Witness ==
    /\ variant = "occpy"
    /\ args.critical = <<"9", "x">>
    /\ args.warning = NoRange
    /\ pc = "done"
    /\ fetches = 0

\* C9: a probe call that returns reports the counts of the records it has
\* just fetched, whatever the calls before it.
C9_NoCarryOver ==
    (probes >= 1 /\ raised = None) =>
        /\ Len(metrics) = 3
        /\ \A i \in 1..3 : metrics[i].value = Count(fainfo, metrics[i].name)

\* C10: an invocation that opened a session has called invalidate_cookie
\* on it by the time it ends.
C10_SessionReleased ==
    (pc = "done" /\ fa # "none") => invalidations >= 1

====
